---- MODULE Spec2Model ----
(***************************************************************************)
(* Model of catalyst_center_mcp.py: the five tool operations of the        *)
(* FastMCP server and the request forwarder make_api_request they share.   *)
(*                                                                         *)
(* A call is a coroutine.  It is suspended only at the network I/O of      *)
(* client.request (line 68) and at asyncio.sleep(1) (line 75); everything  *)
(* between two suspension points runs without interleaving, so one action  *)
(* models one such stretch of a call.                                      *)
(***************************************************************************)
EXTENDS Integers, Sequences, FiniteSets, TLC

VARIABLES
    config,       \* module-level API_BASE_URL, API_TOKEN, HEADERS (lines 14-25)
    calls,        \* call slot -> frame of the coroutine running in it
    invocations,  \* number of tool invocations started
    upstream,     \* number of requests the upstream API has been sent
    prev          \* the last completed invocation (history, for comparison)

vars == <<config, calls, invocations, upstream, prev>>

(***************************************************************************)
(* Bounds of the model.                                                    *)
(***************************************************************************)
MaxCalls == 2          \* call slots: calls that can be in flight together
MaxInvocations == 3    \* invocations in one run

Calls == 1..MaxCalls

(***************************************************************************)
(* JSON values, as json.loads / response.json() build them and json.dumps  *)
(* reads them.  A dict keeps its keys in insertion order.                  *)
(***************************************************************************)
JNull == [t |-> "null"]
JStr(s) == [t |-> "str", s |-> s]
JInt(i) == [t |-> "int", i |-> i]
JList(q) == [t |-> "list", items |-> q]
JObj(q) == [t |-> "obj", fields |-> q]      \* q: sequence of <<key, value>>

None == [kind |-> "none"]

\* The outcome of evaluating a Python expression: a value or a raised exception.
Ok(v) == [ok |-> TRUE, v |-> v]
Err(e) == [ok |-> FALSE, exc |-> e]

HasKey(d, k) == \E i \in DOMAIN d.fields : d.fields[i][1] = k
Lookup(d, k) == d.fields[CHOOSE i \in DOMAIN d.fields : d.fields[i][1] = k][2]
Keys(d) == [i \in DOMAIN d.fields |-> d.fields[i][1]]

\* x[k] with a str key
Subscript(x, k) ==
    IF x.t = "obj"
    THEN IF HasKey(x, k) THEN Ok(Lookup(x, k)) ELSE Err("KeyError")
    ELSE Err("TypeError")

\* x.get(k, default)
DictGet(x, k, default) ==
    IF x.t = "obj"
    THEN Ok(IF HasKey(x, k) THEN Lookup(x, k) ELSE default)
    ELSE Err("AttributeError")

\* k in x, for a str k.  (A str x makes it a substring test; top-level JSON
\* strings are not among the bodies of this model.)
Contains(x, k) ==
    CASE x.t = "obj" -> Ok(HasKey(x, k))
      [] x.t = "list" -> Ok(\E i \in DOMAIN x.items : x.items[i] = JStr(k))
      [] OTHER -> Err("TypeError")

\* for item in x: the items a comprehension visits (a dict gives its keys; no
\* str is iterated in this model)
Iterate(x) ==
    CASE x.t = "list" -> Ok(x.items)
      [] x.t = "obj" -> Ok([i \in DOMAIN x.fields |-> JStr(x.fields[i][1])])
      [] OTHER -> Err("TypeError")

\* bool(x) of an Optional[str] argument
Truthy(x) == x.t = "str" /\ x.s # ""

\* The first exception among the results of expressions evaluated in order.
FirstErr(rs) ==
    IF \E i \in DOMAIN rs : ~rs[i].ok
    THEN rs[CHOOSE i \in DOMAIN rs : ~rs[i].ok /\ \A j \in 1..(i-1) : rs[j].ok]
    ELSE Ok(JNull)

(***************************************************************************)
(* json.dumps(value, indent=2).  The strings of this model hold no         *)
(* character json.dumps escapes.                                           *)
(***************************************************************************)
RECURSIVE Pad(_)
Pad(level) == IF level = 0 THEN "" ELSE "  " \o Pad(level - 1)

RECURSIVE json_dumps_at(_, _)
RECURSIVE json_dumps_items(_, _, _)
RECURSIVE json_dumps_fields(_, _, _)

json_dumps_items(q, i, level) ==
    IF i > Len(q) THEN ""
    ELSE Pad(level) \o json_dumps_at(q[i], level)
         \o (IF i < Len(q) THEN ",\n" ELSE "\n")
         \o json_dumps_items(q, i + 1, level)

json_dumps_fields(q, i, level) ==
    IF i > Len(q) THEN ""
    ELSE Pad(level) \o "\"" \o q[i][1] \o "\": " \o json_dumps_at(q[i][2], level)
         \o (IF i < Len(q) THEN ",\n" ELSE "\n")
         \o json_dumps_fields(q, i + 1, level)

json_dumps_at(v, level) ==
    CASE v.t = "null" -> "null"
      [] v.t = "str" -> "\"" \o v.s \o "\""
      [] v.t = "int" -> ToString(v.i)
      [] v.t = "list" ->
            IF v.items = <<>> THEN "[]"
            ELSE "[\n" \o json_dumps_items(v.items, 1, level + 1) \o Pad(level) \o "]"
      [] v.t = "obj" ->
            IF v.fields = <<>> THEN "{}"
            ELSE "{\n" \o json_dumps_fields(v.fields, 1, level + 1) \o Pad(level) \o "}"

json_dumps(v) == json_dumps_at(v, 0)

\* What a handler hands back to its caller.
Return(v) == [kind |-> "return", value |-> v, text |-> json_dumps(v)]
Raise(e) == [kind |-> "raise", exc |-> e]

(***************************************************************************)
(* The pydantic models (lines 27-54).  pydantic 2 does not coerce: a str   *)
(* field takes a str only, an Optional[str] field a str or None.           *)
(***************************************************************************)
Field(name, required) == [name |-> name, required |-> required]

Site == <<Field("id", TRUE), Field("name", TRUE), Field("description", FALSE)>>

Device ==
    <<Field("id", TRUE), Field("hostname", TRUE), Field("family", TRUE),
      Field("role", TRUE), Field("ip_address", FALSE)>>

Endpoint ==
    <<Field("mac", FALSE), Field("ip_address", FALSE), Field("username", FALSE)>>

DeviceDetails ==
    <<Field("hostname", TRUE), Field("family", TRUE), Field("software_version", FALSE),
      Field("serial_number", FALSE), Field("status", FALSE)>>

TaskResult == <<Field("task_id", FALSE), Field("status", FALSE)>>

FieldNames(model) == [i \in DOMAIN model |-> model[i].name]

Valid(field, v) == v.t = "str" \/ (~field.required /\ v.t = "null")

\* Model(**kwargs).dict(), the keyword arguments given in the model's field
\* order as results of the expressions that compute them.
Construct(model, args) ==
    LET e == FirstErr(args) IN
    IF ~e.ok THEN e
    ELSE IF \E i \in DOMAIN model : ~Valid(model[i], args[i].v)
    THEN Err("ValidationError")
    ELSE Ok(JObj([i \in DOMAIN model |-> <<model[i].name, args[i].v>>]))

(***************************************************************************)
(* Upstream outcomes of one client.request call.                           *)
(***************************************************************************)
\* A body that is a JSON document, and one that is not (response.json() raises
\* json.JSONDecodeError with message msg).
JsonBody(doc) == [text |-> json_dumps(doc), json |-> Ok(doc)]
RawBody(text, msg) == [text |-> text, json |-> Err(msg)]

Response(status, body) ==
    [kind |-> "response", status |-> status, text |-> body.text, json |-> body.json]
\* httpx.RequestError: ConnectError, ConnectTimeout, ReadTimeout, ...
RequestError(msg) == [kind |-> "RequestError", message |-> msg]
\* any other exception raised inside the try block
OtherException(msg) == [kind |-> "Exception", message |-> msg]

(***************************************************************************)
(* make_api_request (lines 60-84).                                         *)
(***************************************************************************)
ErrorData(msg) == JObj(<< <<"error", JStr(msg)>> >>)

\* response.raise_for_status() raises httpx.HTTPStatusError
\* (variant: only 4xx and 5xx raise, as in httpx before 0.20)
raise_for_status_old(status) == status >= 400
raise_for_status(status) == ~(200 <= status /\ status <= 299)

\* except httpx.HTTPStatusError (lines 71-78)
\* (variant: no branch for 401)
on_HTTPStatusError_generic(response) ==
    IF response.status = 429
    THEN ErrorData("Rate limit exceeded. Please try again later.")
    ELSE ErrorData("API error: " \o ToString(response.status) \o " - " \o response.text)

\* (variant: the message carries a module-level request count)
on_HTTPStatusError_counting(response) ==
    IF response.status = 401
    THEN ErrorData("Authentication failed. Check your API token.")
    ELSE IF response.status = 429
    THEN ErrorData("Rate limit exceeded. Please try again later.")
    ELSE ErrorData("API error: " \o ToString(response.status) \o " - " \o response.text
                   \o " (request " \o ToString(upstream) \o ")")

on_HTTPStatusError(response) ==
    IF response.status = 401
    THEN ErrorData("Authentication failed. Check your API token.")
    ELSE IF response.status = 429
    THEN ErrorData("Rate limit exceeded. Please try again later.")
    ELSE ErrorData("API error: " \o ToString(response.status) \o " - " \o response.text)

\* The dict make_api_request returns for an outcome of its one request.
make_api_request(o) ==
    CASE o.kind = "response" ->
            IF raise_for_status(o.status) THEN on_HTTPStatusError(o)
            ELSE IF o.json.ok THEN o.json.v
            ELSE ErrorData("Unexpected error: " \o o.json.exc)
      [] o.kind = "RequestError" -> ErrorData("Network error: " \o o.message)
      [] o.kind = "Exception" -> ErrorData("Unexpected error: " \o o.message)

\* await asyncio.sleep(1): the seconds the coroutine sleeps on a 429
RateLimitDelay == 1

\* Whether the coroutine sleeps before it returns (lines 74-75).
Sleeps(o) == o.kind = "response" /\ raise_for_status(o.status) /\ o.status = 429

(***************************************************************************)
(* The tool handlers (lines 86-197), from the dict the forwarder returned. *)
(***************************************************************************)
\* if "error" in data: return json.dumps({"error": data["error"]}, indent=2)
\* None when the handler goes on.
error_payload(data) ==
    LET has == Contains(data, "error") IN
    IF ~has.ok THEN Raise(has.exc)
    ELSE IF ~has.v THEN None
    ELSE LET e == Subscript(data, "error") IN
         IF e.ok THEN Return(JObj(<< <<"error", e.v>> >>)) ELSE Raise(e.exc)

SiteOf(site) ==
    Construct(Site, <<Subscript(site, "id"), Subscript(site, "name"),
                      DictGet(site, "description", JNull)>>)

\* (variant: the address read from "ipAddress", as get_endpoints reads it)
DeviceOf_ipAddress(dev) ==
    Construct(Device, <<Subscript(dev, "id"), Subscript(dev, "hostname"),
                        Subscript(dev, "family"), Subscript(dev, "role"),
                        DictGet(dev, "ipAddress", JNull)>>)

DeviceOf(dev) ==
    Construct(Device, <<Subscript(dev, "id"), Subscript(dev, "hostname"),
                        Subscript(dev, "family"), Subscript(dev, "role"),
                        DictGet(dev, "managementIpAddress", JNull)>>)

EndpointOf(ep) ==
    Construct(Endpoint, <<DictGet(ep, "mac", JNull), DictGet(ep, "ipAddress", JNull),
                          DictGet(ep, "username", JNull)>>)

\* the element the comprehension of a tool builds from an item
ItemOf(tool, item) ==
    CASE tool = "get_sites" -> SiteOf(item)
      [] tool = "get_devices" -> DeviceOf(item)
      [] tool = "get_endpoints" -> EndpointOf(item)

\* [Model(...).dict() for item in data.get("response", [])] with the model of
\* the tool, then the empty test
ListProjection(data, tool, message) ==
    LET r == DictGet(data, "response", JList(<<>>)) IN
    IF ~r.ok THEN Raise(r.exc)
    ELSE LET it == Iterate(r.v) IN
         IF ~it.ok THEN Raise(it.exc)
         ELSE LET rs == [i \in DOMAIN it.v |-> ItemOf(tool, it.v[i])]
                  e == FirstErr(rs)
              IN IF ~e.ok THEN Raise(e.exc)
                 ELSE IF rs = <<>>
                 THEN Return(JObj(<< <<"message", JStr(message)>> >>))
                 ELSE Return(JList([i \in DOMAIN rs |-> rs[i].v]))

get_sites(data) ==
    LET e == error_payload(data) IN
    IF e # None THEN e ELSE ListProjection(data, "get_sites", "No sites found.")

get_devices(data) ==
    LET e == error_payload(data) IN
    IF e # None THEN e ELSE ListProjection(data, "get_devices", "No devices found.")

get_endpoints(data) ==
    LET e == error_payload(data) IN
    IF e # None THEN e
    ELSE ListProjection(data, "get_endpoints", "No endpoints found for this device.")

get_device_details(data) ==
    LET e == error_payload(data) IN
    IF e # None THEN e
    ELSE LET device == DictGet(data, "response", JObj(<<>>)) IN
         IF ~device.ok THEN Raise(device.exc)
         ELSE LET details ==
                    Construct(DeviceDetails,
                        <<DictGet(device.v, "hostname", JStr("N/A")),
                          DictGet(device.v, "family", JStr("N/A")),
                          DictGet(device.v, "softwareVersion", JNull),
                          DictGet(device.v, "serialNumber", JNull),
                          DictGet(device.v, "reachabilityStatus", JNull)>>)
              IN IF details.ok THEN Return(details.v) ELSE Raise(details.exc)

run_automation_task(data) ==
    LET e == error_payload(data) IN
    IF e # None THEN e
    ELSE LET result ==
                Construct(TaskResult, <<DictGet(data, "taskId", JNull),
                                        DictGet(data, "progress", JNull)>>)
         IN IF ~result.ok THEN Raise(result.exc)
            ELSE Return(JObj(<< <<"status", JStr("success")>>,
                                <<"task_id", Lookup(result.v, "task_id")>>,
                                <<"progress", Lookup(result.v, "status")>> >>))

\* The handler of each tool, after its await of make_api_request.
Handler(op, data) ==
    CASE op = "get_sites" -> get_sites(data)
      [] op = "get_devices" -> get_devices(data)
      [] op = "get_endpoints" -> get_endpoints(data)
      [] op = "get_device_details" -> get_device_details(data)
      [] op = "run_automation_task" -> run_automation_task(data)

(***************************************************************************)
(* Inputs: configurations, tool invocations and upstream outcomes.         *)
(***************************************************************************)
\* HEADERS (lines 21-25)
HEADERS(token) ==
    ("X-Auth-Token" :> token) @@ ("Content-Type" :> "application/json")
        @@ ("Accept" :> "application/json")

\* The module-level configuration after start-up (lines 14-25).  The module
\* raises ValueError at import when the token is missing or empty.
Config(base, token) ==
    [API_BASE_URL |-> base, API_TOKEN |-> token, HEADERS |-> HEADERS(token)]

Configs ==
    { Config(base, "token-1") :
        base \in {"https://sandboxdnac.cisco.com/dna/intent/api/v1",
                  "https://dnac.example.com/dna/intent/api/v1"} }

Tool(op, args) == [op |-> op, args |-> args]

ToolCalls ==
    { Tool("get_sites", <<>>),
      Tool("get_devices", <<JNull>>),
      Tool("get_devices", <<JStr("")>>),
      Tool("get_devices", <<JStr("site-1")>>),
      Tool("get_endpoints", <<JStr("dev-1")>>),
      Tool("get_device_details", <<JStr("dev-1")>>),
      Tool("run_automation_task",
           <<JStr("provision_device"), JObj(<< <<"device_id", JStr("dev-1")>> >>)>>) }

ReadOps == {"get_sites", "get_devices", "get_endpoints", "get_device_details"}
ListOps == {"get_sites", "get_devices", "get_endpoints"}

\* Upstream records.  RecFull carries every key a handler reads and one it
\* does not; RecMin only the keys the handlers index; RecNoId lacks them;
\* RecBadType holds numbers where the models want strings.
RecFull ==
    JObj(<< <<"id", JStr("1")>>, <<"name", JStr("HQ")>>, <<"description", JStr("main site")>>,
            <<"hostname", JStr("sw1")>>, <<"family", JStr("Switches")>>,
            <<"role", JStr("ACCESS")>>, <<"managementIpAddress", JStr("10.0.0.1")>>,
            <<"mac", JStr("aa:bb:cc:dd:ee:ff")>>, <<"ipAddress", JStr("10.0.0.9")>>,
            <<"username", JStr("alice")>>, <<"softwareVersion", JStr("17.3.1")>>,
            <<"serialNumber", JStr("FOC1")>>, <<"reachabilityStatus", JStr("Reachable")>>,
            <<"upTime", JStr("3 days")>> >>)

RecMin ==
    JObj(<< <<"id", JStr("2")>>, <<"name", JStr("Lab")>>, <<"hostname", JStr("r2")>>,
            <<"family", JStr("Routers")>>, <<"role", JStr("CORE")>> >>)

RecNoId == JObj(<< <<"description", JStr("orphan")>> >>)

RecBadType ==
    JObj(<< <<"id", JInt(7)>>, <<"name", JStr("Lab")>>, <<"hostname", JInt(7)>>,
            <<"family", JStr("Routers")>>, <<"role", JStr("CORE")>>, <<"mac", JInt(7)>> >>)

Wrapped(v) == JObj(<< <<"response", v>> >>)
WithError(doc, e) == JObj(doc.fields \o << <<"error", e>> >>)
TaskDoc == JObj(<< <<"taskId", JStr("t-1")>>, <<"progress", JStr("running")>> >>)

\* JSON documents with N >= 1 well-formed records for the list operations
RecordDocs == { Wrapped(JList(<<RecFull>>)), Wrapped(JList(<<RecFull, RecMin>>)) }
\* JSON objects with an empty "response" array, or none
EmptyDocs == { Wrapped(JList(<<>>)), JObj(<<>>) }
\* JSON objects that carry a top-level "error" key
ErrorKeyDocs ==
    { WithError(Wrapped(JList(<<RecFull>>)), JStr("partial")),
      WithError(Wrapped(JList(<<>>)), JNull),
      WithError(TaskDoc, JStr("warn")) }
\* JSON objects whose records the handlers cannot read, and "response": null
MalformedDocs ==
    { Wrapped(JList(<<RecNoId>>)), Wrapped(JList(<<RecBadType>>)),
      Wrapped(RecBadType), Wrapped(JNull) }
\* JSON documents that are not objects
NonObjectDocs == { JList(<<>>), JList(<<RecFull>>), JList(<<JStr("error")>>), JInt(5) }

Docs ==
    RecordDocs \cup EmptyDocs \cup ErrorKeyDocs \cup MalformedDocs \cup NonObjectDocs
        \cup { Wrapped(RecFull), TaskDoc }

DecodeMessage == "Expecting value: line 1 column 1 (char 0)"

SuccessOutcomes ==
    { Response(200, JsonBody(d)) : d \in Docs }
        \cup { Response(201, JsonBody(TaskDoc)),
               Response(200, RawBody("<html>maintenance</html>", DecodeMessage)),
               Response(204, RawBody("", DecodeMessage)) }

ErrorTexts == {"", "denied"}

StatusOutcomes ==
    { Response(s, RawBody(t, DecodeMessage)) :
        s \in {302, 401, 404, 429, 500}, t \in ErrorTexts }
        \cup { Response(101, RawBody("", DecodeMessage)) }

FailureOutcomes ==
    { RequestError("All connection attempts failed"), RequestError(""),
      OtherException("Request URL is missing an http or https protocol.") }

Outcomes == SuccessOutcomes \cup StatusOutcomes \cup FailureOutcomes

\* The invocations and outcomes concurrent calls are run with: one
\* invocation of each tool, one outcome of each kind.
ConcurrentToolCalls ==
    { Tool("get_sites", <<>>),
      Tool("get_devices", <<JStr("site-1")>>),
      Tool("get_endpoints", <<JStr("dev-1")>>),
      Tool("get_device_details", <<JStr("dev-1")>>),
      Tool("run_automation_task",
           <<JStr("provision_device"), JObj(<< <<"device_id", JStr("dev-1")>> >>)>>) }


ConcurrentOutcomes ==
    { Response(200, JsonBody(Wrapped(JList(<<RecFull, RecMin>>)))),
      Response(200, JsonBody(Wrapped(JList(<<>>)))),
      Response(401, RawBody("denied", DecodeMessage)),
      Response(429, RawBody("", DecodeMessage)),
      Response(500, RawBody("denied", DecodeMessage)),
      RequestError("All connection attempts failed") }

(***************************************************************************)
(* The request each tool hands to make_api_request, and the request        *)
(* make_api_request hands to client.request (lines 64-68).  No call site   *)
(* passes an endpoint with a leading "/", so lstrip('/') changes none.     *)
(***************************************************************************)
ToolRequest(tool) ==
    CASE tool.op = "get_sites" ->
            [method |-> "GET", endpoint |-> "site", params |-> JNull, data |-> JNull]
      [] tool.op = "get_devices" ->
            [method |-> "GET", endpoint |-> "network-device",
             params |-> IF Truthy(tool.args[1])
                        THEN JObj(<< <<"siteId", tool.args[1]>> >>) ELSE JNull,
             data |-> JNull]
      [] tool.op = "get_endpoints" ->
            [method |-> "GET", endpoint |-> "device/" \o tool.args[1].s \o "/endpoint",
             params |-> JNull, data |-> JNull]
      [] tool.op = "get_device_details" ->
            [method |-> "GET", endpoint |-> "network-device/" \o tool.args[1].s,
             params |-> JNull, data |-> JNull]
      [] tool.op = "run_automation_task" ->
            [method |-> "POST", endpoint |-> "task", params |-> JNull,
             data |-> JObj(<< <<"taskType", tool.args[1]>>, <<"params", tool.args[2]>> >>)]

HttpRequest(tool) ==
    LET r == ToolRequest(tool) IN
    [method |-> r.method, url |-> config.API_BASE_URL \o "/" \o r.endpoint,
     headers |-> config.HEADERS, params |-> r.params, json |-> r.data]

(***************************************************************************)
(* The state machine.                                                      *)
(***************************************************************************)
IdleFrame ==
    [pc |-> "idle", tool |-> None, request |-> None, outcome |-> None,
     data |-> None, trace |-> <<>>, result |-> None]

\* The slot a new call gets: the lowest idle one.
FreeSlot(c) ==
    /\ calls[c].pc = "idle"
    /\ \A d \in Calls : d < c => calls[d].pc # "idle"

\* The local variables of call c's coroutine.
\* (variant: one module-level frame, overwritten by the latest call)
FrameShared(c) ==
    calls[CHOOSE d \in Calls : calls[d].pc # "idle"
                    /\ \A e \in Calls : calls[e].pc # "idle" => e <= d]
Frame(c) == calls[c]

\* The event a trace records for what client.request came back with.
Event(o) ==
    IF o.kind = "response" THEN "response:" \o ToString(o.status) ELSE o.kind

\* The forwarder returns the dict for outcome o and the handler runs to its
\* end; events are what the coroutine went through since it was last suspended.
Finish(c, o, events) ==
    LET data == make_api_request(o)
        result == Handler(Frame(c).tool.op, data)
    IN [calls[c] EXCEPT !.pc = "done", !.outcome = o, !.data = data,
                        !.result = result,
                        !.trace = @ \o events \o <<result.kind>>]

\* A tool is invoked: the handler runs up to client.request (line 68).
\* (variant: the handler composes two upstream calls)
StartTwice(c, tool) ==
    /\ FreeSlot(c)
    /\ invocations < MaxInvocations
    /\ calls' = [calls EXCEPT ![c] =
                    [pc |-> "awaiting", tool |-> tool, request |-> HttpRequest(tool),
                     outcome |-> None, data |-> None,
                     trace |-> <<"request", "request">>, result |-> None]]
    /\ invocations' = invocations + 1
    /\ upstream' = upstream + 2
    /\ UNCHANGED <<config, prev>>

Start(c, tool) ==
    /\ FreeSlot(c)
    /\ invocations < MaxInvocations
    /\ calls' = [calls EXCEPT ![c] =
                    [pc |-> "awaiting", tool |-> tool, request |-> HttpRequest(tool),
                     outcome |-> None, data |-> None, trace |-> <<"request">>,
                     result |-> None]]
    /\ invocations' = invocations + 1
    /\ upstream' = upstream + 1
    /\ UNCHANGED <<config, prev>>

\* ... while no other call is in flight
Invoke(c, tool) ==
    /\ \A d \in Calls : calls[d].pc = "idle"
    /\ Start(c, tool)

\* ... whatever the other calls are doing
InvokeConcurrently(c, tool) == Start(c, tool)

\* client.request comes back with outcome o (lines 68-84): on a 429 the
\* coroutine goes to sleep, otherwise the forwarder returns and the handler
\* runs to its end.
Receive(c, o) ==
    /\ calls[c].pc = "awaiting"
    /\ calls' = [calls EXCEPT ![c] =
                    IF Sleeps(o)
                    THEN [calls[c] EXCEPT !.pc = "sleeping", !.outcome = o,
                                          !.trace = @ \o <<Event(o)>>]
                    ELSE Finish(c, o, <<Event(o)>>)]
    /\ UNCHANGED <<config, invocations, upstream, prev>>

\* asyncio.sleep(1) is over (lines 75-76): the forwarder returns and the
\* handler runs to its end.
\* (variant: the request is sent again after the delay)
WakeResubmit(c) ==
    /\ calls[c].pc = "sleeping"
    /\ calls' = [calls EXCEPT ![c] =
                    [calls[c] EXCEPT !.pc = "awaiting",
                                     !.trace = @ \o <<"sleep:" \o ToString(RateLimitDelay), "request">>]]
    /\ upstream' = upstream + 1
    /\ UNCHANGED <<config, invocations, prev>>

Wake(c) ==
    /\ calls[c].pc = "sleeping"
    /\ calls' = [calls EXCEPT ![c] = Finish(c, calls[c].outcome, <<"sleep:" \o ToString(RateLimitDelay)>>)]
    /\ UNCHANGED <<config, invocations, upstream, prev>>

\* The caller takes the result; the coroutine's frame is gone.
Collect(c) ==
    /\ calls[c].pc = "done"
    /\ prev' = [tool |-> calls[c].tool, outcome |-> calls[c].outcome,
                result |-> calls[c].result]
    /\ calls' = [calls EXCEPT ![c] = IdleFrame]
    /\ UNCHANGED <<config, invocations, upstream>>

Init ==
    /\ config \in Configs
    /\ calls = [c \in Calls |-> IdleFrame]
    /\ invocations = 0
    /\ upstream = 0
    /\ prev = None

\* Calls one after another, against every outcome.
Next ==
    \/ \E c \in Calls, tool \in ToolCalls : Invoke(c, tool)
    \/ \E c \in Calls, o \in Outcomes : Receive(c, o)
    \/ \E c \in Calls : Wake(c)
    \/ \E c \in Calls : Collect(c)

Spec == Init /\ [][Next]_vars

\* Calls in flight together, in every interleaving.
NextConcurrent ==
    \/ \E c \in Calls, tool \in ConcurrentToolCalls : InvokeConcurrently(c, tool)
    \/ \E c \in Calls, o \in ConcurrentOutcomes : Receive(c, o)
    \/ \E c \in Calls : Wake(c)

SpecConcurrent == Init /\ [][NextConcurrent]_vars

(***************************************************************************)
(* Vocabulary of the properties.                                           *)
(***************************************************************************)
Done(c) == calls[c].pc = "done"
Answered(c, status) ==
    Done(c) /\ calls[c].outcome.kind = "response" /\ calls[c].outcome.status = status
\* a 2xx response whose body is a JSON object
ObjectBody(o) ==
    /\ o.kind = "response" /\ 200 <= o.status /\ o.status <= 299
    /\ o.json.ok /\ o.json.v.t = "obj"
\* the forwarder's failures: a non-2xx status, an exception of the transport,
\* any other exception (a body that is not JSON among them)
ForwarderFailure(o) ==
    \/ o.kind \in {"RequestError", "Exception"}
    \/ o.kind = "response" /\ ~(200 <= o.status /\ o.status <= 299 /\ o.json.ok)

ErrorPayload(msg) ==
    [kind |-> "return", value |-> JObj(<< <<"error", JStr(msg)>> >>),
     text |-> "{\n  \"error\": \"" \o msg \o "\"\n}"]
MessagePayload(msg) ==
    [kind |-> "return", value |-> JObj(<< <<"message", JStr(msg)>> >>),
     text |-> "{\n  \"message\": \"" \o msg \o "\"\n}"]
IsErrorPayload(r) ==
    r.kind = "return" /\ r.value.t = "obj" /\ Keys(r.value) = <<"error">>

(***************************************************************************)
(* C1: whatever the tool and its arguments, and whatever the body of the   *)
(* response, a call the upstream answers with 401 returns exactly          *)
(* {"error": "Authentication failed. Check your API token."}.              *)
(***************************************************************************)
C1_AuthFailure ==
    \A c \in Calls :
        Answered(c, 401) =>
            calls[c].result = ErrorPayload("Authentication failed. Check your API token.")

C1_Witness ==
    \E c \in Calls :
        /\ Answered(c, 401)
        /\ calls[c].tool.op = "run_automation_task"
        /\ calls[c].outcome.text = "denied"
        /\ calls[c].result.kind = "return"

(***************************************************************************)
(* C2: a call the upstream answers with 429 goes request -> 429 -> sleep   *)
(* of 1 second -> return, in that order and with nothing else: it has no   *)
(* result while it sleeps, it sends no second request, and it returns the  *)
(* rate-limit error.                                                       *)
(***************************************************************************)
C2_RateLimit ==
    \A c \in Calls :
        (Len(calls[c].trace) >= 2 /\ calls[c].trace[2] = "response:429") =>
            \/ /\ calls[c].pc = "sleeping"
               /\ calls[c].trace = <<"request", "response:429">>
               /\ calls[c].result = None
            \/ /\ calls[c].pc = "done"
               /\ calls[c].trace = <<"request", "response:429", "sleep:1", "return">>
               /\ calls[c].result =
                    ErrorPayload("Rate limit exceeded. Please try again later.")

C2_Witness ==
    \E c \in Calls :
        /\ Answered(c, 429)
        /\ calls[c].trace = <<"request", "response:429", "sleep:1", "return">>
        /\ upstream = 1

(***************************************************************************)
(* C3: every call ends by returning a JSON string, never by raising.       *)
(***************************************************************************)
C3_NeverRaises ==
    \A c \in Calls : Done(c) => calls[c].result.kind = "return"

(***************************************************************************)
(* C4: the output for a 2xx response that carries well-formed records.     *)
(***************************************************************************)
SchemaOf(op) ==
    CASE op = "get_sites" -> Site
      [] op = "get_devices" -> Device
      [] op = "get_endpoints" -> Endpoint
      [] op = "get_device_details" -> DeviceDetails
      [] op = "run_automation_task" -> TaskResult

\* the upstream key each declared field is read from, in field order
UpstreamKeys(op) ==
    CASE op = "get_sites" -> <<"id", "name", "description">>
      [] op = "get_devices" ->
            <<"id", "hostname", "family", "role", "managementIpAddress">>
      [] op = "get_endpoints" -> <<"mac", "ipAddress", "username">>
      [] op = "get_device_details" ->
            <<"hostname", "family", "softwareVersion", "serialNumber",
              "reachabilityStatus">>
      [] op = "run_automation_task" -> <<"taskId", "progress">>

\* a record with a string under every required key and a string, null or
\* nothing under every optional one
WellFormed(op, r) ==
    /\ r.t = "obj"
    /\ \A i \in DOMAIN SchemaOf(op) :
        IF SchemaOf(op)[i].required
        THEN HasKey(r, UpstreamKeys(op)[i]) /\ Lookup(r, UpstreamKeys(op)[i]).t = "str"
        ELSE HasKey(r, UpstreamKeys(op)[i])
                => Lookup(r, UpstreamKeys(op)[i]).t \in {"str", "null"}

\* The well-formed records a 2xx response carries for a tool: the items of
\* its "response" array for the list tools, its "response" object for
\* get_device_details, the body itself for run_automation_task; <<>> when it
\* carries none, or one that is not well-formed.
Records(op, o) ==
    LET doc == o.json.v
        rs == CASE op \in ListOps ->
                    IF HasKey(doc, "response") /\ Lookup(doc, "response").t = "list"
                    THEN Lookup(doc, "response").items ELSE <<>>
                [] op = "get_device_details" ->
                    IF HasKey(doc, "response") THEN <<Lookup(doc, "response")>> ELSE <<>>
                [] op = "run_automation_task" ->
                    IF HasKey(doc, "taskId") THEN <<doc>> ELSE <<>>
    IN IF ObjectBody(o) /\ \A i \in DOMAIN rs : WellFormed(op, rs[i]) THEN rs ELSE <<>>

\* the declared fields of the tool's schema, each read from record r
Projected(op, r) ==
    JObj([i \in DOMAIN SchemaOf(op) |->
            <<SchemaOf(op)[i].name,
              IF HasKey(r, UpstreamKeys(op)[i]) THEN Lookup(r, UpstreamKeys(op)[i])
              ELSE JNull>>])

\* C4 as claimed: for each of the five tools, N >= 1 well-formed records
\* give a JSON array of length N, in upstream order, each element holding
\* exactly the declared fields of the tool's schema.
C4_ArrayForEveryTool ==
    \A c \in Calls :
        LET op == calls[c].tool.op
            rs == Records(op, calls[c].outcome)
        IN (Done(c) /\ rs # <<>>) =>
            calls[c].result = Return(JList([i \in DOMAIN rs |-> Projected(op, rs[i])]))

\* C4 as amended: for N >= 1 well-formed records, get_sites, get_devices and
\* get_endpoints give the JSON array of length N, in upstream order, each
\* element holding exactly the declared fields of the schema; get_device_details
\* gives one JSON object holding exactly the fields of DeviceDetails;
\* run_automation_task gives one JSON object with exactly the keys status
\* ("success"), task_id and progress; and when the body also carries a
\* top-level "error" key, every tool gives {"error": <its value>} instead.
C4_ProjectionPerTool ==
    \A c \in Calls :
        LET op == calls[c].tool.op
            o == calls[c].outcome
            rs == Records(op, o)
        IN (Done(c) /\ rs # <<>>) =>
            calls[c].result =
                CASE HasKey(o.json.v, "error") ->
                        Return(JObj(<< <<"error", Lookup(o.json.v, "error")>> >>))
                  [] ~HasKey(o.json.v, "error") /\ op \in ListOps ->
                        Return(JList([i \in DOMAIN rs |-> Projected(op, rs[i])]))
                  [] ~HasKey(o.json.v, "error") /\ op = "get_device_details" ->
                        Return(Projected(op, rs[1]))
                  [] ~HasKey(o.json.v, "error") /\ op = "run_automation_task" ->
                        Return(JObj(<< <<"status", JStr("success")>>,
                                       <<"task_id", Lookup(rs[1], "taskId")>>,
                                       <<"progress", Lookup(rs[1], "progress")>> >>))

C4_Witness ==
    \E c \in Calls :
        /\ Done(c)
        /\ calls[c].tool.op = "get_devices"
        /\ Len(Records("get_devices", calls[c].outcome)) = 2
        /\ calls[c].result.kind = "return"
        /\ calls[c].result.value.t = "list"
        /\ Len(calls[c].result.value.items) = 2
        /\ Keys(calls[c].result.value.items[2]) = FieldNames(Device)

(***************************************************************************)
(* C5: for get_sites, get_devices and get_endpoints, a 2xx response whose  *)
(* body is a JSON object with an empty "response" array, or with no        *)
(* "response" key, gives {"message": "No ... found"}.                      *)
(***************************************************************************)
NothingFound(op) ==
    CASE op = "get_sites" -> "No sites found."
      [] op = "get_devices" -> "No devices found."
      [] op = "get_endpoints" -> "No endpoints found for this device."

\* C5: an empty "response" array, or none, gives the tool's "No ... found"
\* message object, never [].
C5_EmptyGivesMessage ==
    \A c \in Calls :
        LET op == calls[c].tool.op
            o == calls[c].outcome
        IN  ( /\ Done(c) /\ op \in ListOps /\ ObjectBody(o)
              /\ \/ ~HasKey(o.json.v, "response")
                 \/ Lookup(o.json.v, "response") = JList(<<>>) )
            => calls[c].result = MessagePayload(NothingFound(op))

(***************************************************************************)
(* C6: every invocation sends the upstream exactly one request, whatever   *)
(* comes back: K invocations, K requests.                                  *)
(***************************************************************************)
Requests(c) ==
    Cardinality({i \in DOMAIN calls[c].trace : calls[c].trace[i] = "request"})

\* C6: the upstream has been sent as many requests as there were
\* invocations, one by each call.
C6_OneRequestPerInvocation ==
    /\ upstream = invocations
    /\ \A c \in Calls : calls[c].pc # "idle" => Requests(c) = 1

C6_Witness ==
    /\ invocations = MaxInvocations
    /\ upstream = MaxInvocations
    /\ prev # None /\ prev.outcome.kind = "response" /\ prev.outcome.status = 429
    /\ \E c \in Calls : Done(c) /\ calls[c].outcome.kind = "RequestError"

(***************************************************************************)
(* C7: calls in flight together do not touch one another.  Each step       *)
(* changes the frame of one call only and leaves the module-level          *)
(* configuration as start-up left it; each call sends the request of its   *)
(* own arguments and ends with the result that its own tool gives for the  *)
(* outcome of its own request, as it does when it runs alone.              *)
(***************************************************************************)
OwnResult(c) ==
    /\ calls[c].pc # "idle" => calls[c].request = HttpRequest(calls[c].tool)
    /\ Done(c) =>
        calls[c].result = Handler(calls[c].tool.op, make_api_request(calls[c].outcome))

OneFrameChanges ==
    \A c, d \in Calls : (calls'[c] # calls[c] /\ d # c) => calls'[d] = calls[d]

Kinds == {"json", "not-json", "401", "429", "status", "transport", "other"}

IsKind(k, o) ==
    LET resp == o.kind = "response"
        ok == resp /\ 200 <= o.status /\ o.status <= 299
    IN CASE k = "json" -> ok /\ o.json.ok
         [] k = "not-json" -> ok /\ ~o.json.ok
         [] k = "401" -> resp /\ o.status = 401
         [] k = "429" -> resp /\ o.status = 429
         [] k = "status" -> resp /\ ~ok /\ o.status \notin {401, 429}
         [] k = "transport" -> o.kind = "RequestError"
         [] k = "other" -> o.kind = "Exception"

KindResult(k, o) ==
    CASE k = "json" -> o.json.v
      [] k = "not-json" -> ErrorData("Unexpected error: " \o o.json.exc)
      [] k = "401" -> ErrorData("Authentication failed. Check your API token.")
      [] k = "429" -> ErrorData("Rate limit exceeded. Please try again later.")
      [] k = "status" ->
            ErrorData("API error: " \o ToString(o.status) \o " - " \o o.text)
      [] k = "transport" -> ErrorData("Network error: " \o o.message)
      [] k = "other" -> ErrorData("Unexpected error: " \o o.message)

\* C9: exactly one kind applies to the outcome, and the forwarder returned
\* that kind's dict.
C9_Classification ==
    \A c \in Calls :
        Done(c) =>
            /\ Cardinality({k \in Kinds : IsKind(k, calls[c].outcome)}) = 1
            /\ \A k \in Kinds :
                IsKind(k, calls[c].outcome)
                    => calls[c].data = KindResult(k, calls[c].outcome)

C9_Witness ==
    \E c \in Calls :
        /\ Answered(c, 302)
        /\ calls[c].data = ErrorData("API error: 302 - denied")

(***************************************************************************)
(* C10: a call returns an {"error": ...} payload exactly when the          *)
(* forwarder classified the outcome of its request as a failure.           *)
(***************************************************************************)
C10_ErrorIffFailure ==
    \A c \in Calls :
        Done(c) => (IsErrorPayload(calls[c].result) <=> ForwarderFailure(calls[c].outcome))

====
